---- MODULE Spec2Model ----
(***************************************************************************)
(* consul-alerting: the process of main.go (startup, discovery, the watch  *)
(* loops it starts, the signal loop and shutdown), the watch loop with its *)
(* lock and the change detector.  main.go is translated from the source;   *)
(* WatchService, WatchNode, getServiceConfig and contains live in files    *)
(* that are not part of the source tree at hand and follow the design      *)
(* document.                                                               *)
(***************************************************************************)
EXTENDS Integers, Sequences, FiniteSets, TLC

\* ------------------------------------------------------------------ bounds
\* At most this many watch loops are started in one run.
MaxWatches == 2
\* Change thresholds range over 1..MaxThreshold.
MaxThreshold == 3
\* The change detector is fed at most this many observations.
MaxObs == 6
\* The leader query fails at most this many times before it succeeds.
MaxRetries == 3

\* ------------------------------------------------------------------ inputs
ServiceNames == {"web", "db"}
TagLists == {<< >>, <<"a", "b">>}
IgnoreLists == {<< >>, <<"b">>}
NodeLists == {<< >>, <<"n1">>, <<"n1", "n2">>}
LocalNodes == {"n1"}

SIGINT == "SIGINT"
SIGTERM == "SIGTERM"
SIGQUIT == "SIGQUIT"
SIGHUP == "SIGHUP"
Signals == {SIGINT, SIGTERM, SIGQUIT, SIGHUP}

\* The health states an observation can carry.
HealthStates == {"ok", "warn", "crit"}
\* No state confirmed yet (before the first observation).
NoState == "none"

\* The fixtures registerTestServices creates.
TestFixtures == {"memory usage", "redis", "nginx"}

\* A per-service configuration block; a service without one is not in the
\* domain of config.Services.
ServiceConfig == [DistinctTags : BOOLEAN, IgnoredTags : IgnoreLists,
                  ChangeThreshold : {2}]

VARIABLES
    config,      \* the parsed Config: GlobalMode, DevMode, ChangeThreshold, Services
    pc,          \* where the main goroutine is
    exitCode,    \* the exit status once the process has ended, -1 before
    retries,     \* failed leader queries of the leader loop so far
    fixtures,    \* the test fixtures registered with the agent
    services,    \* discovered service -> tags
    todo,        \* services the service loop has not visited yet
    nodes,       \* discovered node names
    discoverErr, \* the discovery queries that returned an error
    nodeIdx,     \* the next index of the node loop
    count,       \* shutdownOpts.count
    watches,     \* the watch loops started, in start order, with their WatchOptions
    wpc,         \* per watch loop: where it is
    lock,        \* per watch loop: TRUE while this process holds its entity's lock
    wlog,        \* what the watch loops did with the dispatcher and the lock
    sigCh,       \* the signal channel c (capacity 1)
    sent,        \* completed sends on stopCh (i of shutdown's loop)
    det,         \* change detector: confirmed, candidate, counter
    threshold,   \* change detector: the threshold it runs with
    obs,         \* change detector: the observations fed so far
    emitted      \* change detector: the transitions emitted, with their position

procVars == <<config, pc, exitCode, retries, fixtures, services, todo, nodes,
              discoverErr, nodeIdx, count, watches, wpc, lock, wlog, sigCh,
              sent>>
detVars == <<det, threshold, obs, emitted>>
vars == <<config, pc, exitCode, retries, fixtures, services, todo, nodes,
          discoverErr, nodeIdx, count, watches, wpc, lock, wlog, sigCh, sent,
          det, threshold, obs, emitted>>

\* ------------------------------------------------------------------ helpers
contains(list, x) == \E i \in 1..Len(list) : list[i] = x

hasServiceConfig(service) == service \in DOMAIN config.Services

getServiceConfig(service) == config.Services[service]

\* Watching every tag, the ignored ones too.
watchedTags_noIgnore(tags, ignored) == tags

\* The tags of one service that get a watch of their own, in list order.
RECURSIVE watchedTags(_, _)
watchedTags(tags, ignored) ==
    IF tags = << >> THEN << >>
    ELSE IF contains(ignored, Head(tags))
         THEN watchedTags(Tail(tags), ignored)
         ELSE <<Head(tags)>> \o watchedTags(Tail(tags), ignored)

\* Taking the per-tag branch for a service without tags as well.
distinctTags_withoutTags(service) ==
    /\ hasServiceConfig(service)
    /\ getServiceConfig(service).DistinctTags

\* Watch each tag separately if the flag is set.
distinctTags(service) ==
    /\ hasServiceConfig(service)
    /\ Len(services[service]) > 0
    /\ getServiceConfig(service).DistinctTags

WatchOptions(kind, name, tag, thr, bound) ==
    [kind |-> kind, name |-> name, tag |-> tag, changeThreshold |-> thr,
     stopCh |-> bound]

\* The watch loops one iteration of the service loop starts.
serviceWatches(service) ==
    IF distinctTags(service)
    THEN LET ts == watchedTags(services[service],
                               getServiceConfig(service).IgnoredTags)
         IN  [i \in 1..Len(ts) |->
                WatchOptions("service", service, ts[i],
                             getServiceConfig(service).ChangeThreshold, TRUE)]
    ELSE <<WatchOptions("service", service, "", config.ChangeThreshold, TRUE)>>

\* A node watch that is bound to the stop channel in either mode.
nodeWatch_alwaysBound(node) ==
    WatchOptions("node", node, "", config.ChangeThreshold, TRUE)

\* The watch loop one iteration of the node loop starts.
nodeWatch(node) ==
    WatchOptions("node", node, "", config.ChangeThreshold, config.GlobalMode)

\* Nothing dispatched, nothing suppressed, no lock call made.  dispatched
\* collects, for every dispatch, whether the lock was held at that moment.
NewLog == [dispatched |-> {}, suppressed |-> FALSE, lockCalled |-> FALSE]

\* Start the watch loops ws: each goroutine begins in its poll.
started(ws) ==
    /\ watches' = watches \o ws
    /\ wpc' = wpc \o [i \in 1..Len(ws) |-> "poll"]
    /\ lock' = lock \o [i \in 1..Len(ws) |-> FALSE]

\* ------------------------------------------------------------------ startup
\* How many watch loops discovery of (svcs, nds) leads to.
RECURSIVE sumOver(_, _)
sumOver(S, f) ==
    IF S = {} THEN 0
    ELSE LET x == CHOOSE y \in S : TRUE IN f[x] + sumOver(S \ {x}, f)

plannedWatches(svcs, nds) ==
    LET perService == [s \in DOMAIN svcs |->
            IF /\ s \in DOMAIN config.Services
               /\ Len(svcs[s]) > 0
               /\ config.Services[s].DistinctTags
            THEN Len(watchedTags(svcs[s], config.Services[s].IgnoredTags))
            ELSE 1]
    IN  sumOver(DOMAIN svcs, perService) + Len(nds)

\* What the catalog (global mode) or the local agent (local mode) can answer.
Catalogs == UNION {[S -> TagLists] : S \in SUBSET ServiceNames}

\* os.Exit / log.Fatal: the process ends where it is, with this status.
exit(code) ==
    /\ exitCode' = code
    /\ pc' = pc

exited == exitCode # -1

\* The main goroutine is at label l and the process is alive.
at(l) == pc = l /\ ~exited

\* main: flag parsing; --help or no -config prints the usage and exits 0.
ParseFlags ==
    /\ at("flags")
    /\ \E usageOnly \in BOOLEAN :
          IF usageOnly THEN exit(0)
          ELSE pc' = "config" /\ UNCHANGED exitCode
    /\ UNCHANGED <<config, retries, fixtures, services, todo, nodes, nodeIdx,
                   count, watches, wpc, lock, wlog, sigCh, sent, discoverErr, detVars>>

\* A configuration error reported with log.Fatal (status 1).
LoadConfig_fatal ==
    /\ at("config")
    /\ \E parseErr \in BOOLEAN, levelErr \in BOOLEAN :
          IF parseErr \/ levelErr THEN exit(1)
          ELSE pc' = "client" /\ UNCHANGED exitCode
    /\ UNCHANGED <<config, retries, fixtures, services, todo, nodes, nodeIdx,
                   count, watches, wpc, lock, wlog, sigCh, sent, discoverErr,
                   detVars>>

\* main: ParseConfig and log.ParseLevel; an error of either exits 2.
LoadConfig ==
    /\ at("config")
    /\ \E parseErr \in BOOLEAN, levelErr \in BOOLEAN :
          IF parseErr \/ levelErr THEN exit(2)
          ELSE pc' = "client" /\ UNCHANGED exitCode
    /\ UNCHANGED <<config, retries, fixtures, services, todo, nodes, nodeIdx,
                   count, watches, wpc, lock, wlog, sigCh, sent, discoverErr, detVars>>

\* main: api.NewClient; an error is log.Fatal (exit status 1).
NewClient ==
    /\ at("client")
    /\ \E err \in BOOLEAN :
          IF err THEN exit(1)
          ELSE pc' = "leader" /\ UNCHANGED exitCode
    /\ UNCHANGED <<config, retries, fixtures, services, todo, nodes, nodeIdx,
                   count, watches, wpc, lock, wlog, sigCh, sent, discoverErr, detVars>>

\* A leader loop that gives up with log.Fatal after MaxRetries failures.
LeaderQuery_givesUp ==
    /\ at("leader")
    /\ \E err \in BOOLEAN :
          IF err
          THEN IF retries < MaxRetries
               THEN retries' = retries + 1 /\ UNCHANGED <<pc, exitCode>>
               ELSE exit(1) /\ UNCHANGED retries
          ELSE /\ pc' = "devmode"
               /\ retries' = 0
               /\ UNCHANGED exitCode
    /\ UNCHANGED <<config, fixtures, services, todo, nodes, nodeIdx,
                   count, watches, wpc, lock, wlog, sigCh, sent, discoverErr, detVars>>

\* main: the leader loop; a failed query logs, sleeps 10 s and asks again.
LeaderQuery ==
    /\ at("leader")
    /\ \E err \in BOOLEAN :
          IF err
          THEN /\ retries < MaxRetries
               /\ retries' = retries + 1
               /\ pc' = "leader"
          ELSE /\ pc' = "devmode"
               /\ retries' = 0
    /\ UNCHANGED <<config, exitCode, fixtures, services, todo, nodes, nodeIdx,
                   count, watches, wpc, lock, wlog, sigCh, sent, discoverErr, detVars>>

\* main: registerTestServices when DevMode is set.
RegisterTestServices ==
    /\ at("devmode")
    /\ fixtures' = IF config.DevMode THEN TestFixtures ELSE fixtures
    /\ pc' = "discover"
    /\ UNCHANGED <<config, exitCode, retries, services, todo, nodes, nodeIdx,
                   count, watches, wpc, lock, wlog, sigCh, sent, discoverErr, detVars>>

\* Discovery that treats a node error like a service error.
DiscoverFrom_nodeErrFatal(catalogs, nodeLists, most) ==
    /\ at("discover")
    /\ \E svcErr \in BOOLEAN, nodeErr \in BOOLEAN :
          IF svcErr \/ nodeErr
          THEN /\ exit(1)
               /\ discoverErr' = IF svcErr THEN {"services"} ELSE {"nodes"}
               /\ UNCHANGED <<services, todo, nodes>>
          ELSE \E svcs \in catalogs :
                 \E nds \in IF config.GlobalMode THEN nodeLists
                            ELSE {<<n>> : n \in LocalNodes} :
                    /\ plannedWatches(svcs, nds) <= most
                    /\ services' = svcs
                    /\ todo' = DOMAIN svcs
                    /\ nodes' = nds
                    /\ discoverErr' = {}
                    /\ pc' = "services"
                    /\ UNCHANGED exitCode
    /\ UNCHANGED <<config, retries, fixtures, nodeIdx, count, watches, wpc,
                   lock, wlog, sigCh, sent, detVars>>

\* main: find the services and nodes to watch, where the registry answers
\* with one of catalogs and, in fleet-wide mode, one of nodeLists, and at most
\* most watch loops result.  A service error is fatal, a node error is logged
\* and leaves the node list empty.
DiscoverFrom(catalogs, nodeLists, most) ==
    /\ at("discover")
    /\ \E svcErr \in BOOLEAN :
          IF svcErr
          THEN /\ exit(1)
               /\ discoverErr' = {"services"}
               /\ UNCHANGED <<services, todo, nodes>>
          ELSE \E svcs \in catalogs, nodeErr \in BOOLEAN :
                 \E nds \in IF nodeErr THEN {<< >>}
                            ELSE IF config.GlobalMode THEN nodeLists
                            ELSE {<<n>> : n \in LocalNodes} :
                    /\ plannedWatches(svcs, nds) <= most
                    /\ services' = svcs
                    /\ todo' = DOMAIN svcs
                    /\ nodes' = nds
                    /\ discoverErr' = IF nodeErr THEN {"nodes"} ELSE {}
                    /\ pc' = "services"
                    /\ UNCHANGED exitCode
    /\ UNCHANGED <<config, retries, fixtures, nodeIdx, count, watches, wpc,
                   lock, wlog, sigCh, sent, detVars>>

Discover == DiscoverFrom(Catalogs, NodeLists, MaxWatches)

\* main: one iteration of the service loop (map order is arbitrary).
StartServiceWatches ==
    /\ at("services")
    /\ IF todo = {}
       THEN /\ pc' = "nodes"
            /\ UNCHANGED <<todo, count, watches, wpc, lock>>
       ELSE \E service \in todo :
              /\ started(serviceWatches(service))
              /\ count' = count + Len(serviceWatches(service))
              /\ todo' = todo \ {service}
              /\ UNCHANGED pc
    /\ UNCHANGED <<config, exitCode, retries, fixtures, services, nodes,
                   nodeIdx, wlog, sigCh, sent, discoverErr, detVars>>

\* main: one iteration of the node loop.
StartNodeWatches ==
    /\ at("nodes")
    /\ IF nodeIdx > Len(nodes)
       THEN /\ pc' = "notify"
            /\ UNCHANGED <<nodeIdx, count, watches, wpc, lock>>
       ELSE /\ started(<<nodeWatch(nodes[nodeIdx])>>)
            /\ count' = IF config.GlobalMode THEN count + 1 ELSE count
            /\ nodeIdx' = nodeIdx + 1
            /\ UNCHANGED pc
    /\ UNCHANGED <<config, exitCode, retries, fixtures, services, todo, nodes,
                   wlog, sigCh, sent, discoverErr, detVars>>

\* main: signal.Notify(c); from here on every signal is relayed to c.
NotifySignals ==
    /\ at("notify")
    /\ pc' = "signals"
    /\ UNCHANGED <<config, exitCode, retries, fixtures, services, todo, nodes,
                   nodeIdx, count, watches, wpc, lock, wlog, sigCh, sent,
                   discoverErr, detVars>>

\* ------------------------------------------------------------------ signals
TermSignals == {SIGINT, SIGTERM, SIGQUIT}

\* The runtime relays a signal to c; c has room for one, a signal that finds it
\* full is dropped.
SignalArrives ==
    /\ pc \in {"signals", "shutdown", "release"}
    /\ ~exited
    /\ Len(sigCh) < 1
    /\ \E sig \in Signals : sigCh' = Append(sigCh, sig)
    /\ UNCHANGED <<config, pc, exitCode, retries, fixtures, services, todo,
                   nodes, nodeIdx, count, watches, wpc, lock, wlog, sent,
                   discoverErr, detVars>>

\* A signal switch without the SIGQUIT case.
isTermSignal_noQuit(sig) == sig = SIGINT \/ sig = SIGTERM

\* main: the cases of the signal switch that call shutdown.
isTermSignal(sig) == sig = SIGINT \/ sig = SIGTERM \/ sig = SIGQUIT

\* main: one iteration of the signal loop.
HandleSignal ==
    /\ at("signals")
    /\ sigCh # << >>
    /\ sigCh' = Tail(sigCh)
    /\ pc' = IF isTermSignal(Head(sigCh)) THEN "shutdown" ELSE "signals"
    /\ UNCHANGED <<config, exitCode, retries, fixtures, services, todo, nodes,
                   nodeIdx, count, watches, wpc, lock, wlog, sent, discoverErr, detVars>>

\* ------------------------------------------------------------------ shutdown
\* A shutdown that deregisters the two services and leaves the check.
ShutdownDeregister_servicesOnly ==
    /\ at("shutdown")
    /\ fixtures' = IF config.DevMode THEN fixtures \ {"redis", "nginx"}
                   ELSE fixtures
    /\ pc' = "release"
    /\ UNCHANGED <<config, exitCode, retries, services, todo, nodes, nodeIdx,
                   count, watches, wpc, lock, wlog, sigCh, sent, discoverErr,
                   detVars>>

\* shutdown: deregister the test fixtures when DevMode is set.
ShutdownDeregister ==
    /\ at("shutdown")
    /\ fixtures' = IF config.DevMode THEN fixtures \ TestFixtures ELSE fixtures
    /\ pc' = "release"
    /\ UNCHANGED <<config, exitCode, retries, services, todo, nodes, nodeIdx,
                   count, watches, wpc, lock, wlog, sigCh, sent, discoverErr, detVars>>

\* One stop signal per watch instead of two.
stopSignals_onePerWatch == count

\* The number of sends of shutdown's loop.
stopSignals == count * 2

\* A watch loop that is ready to receive from the stop channel: it was given
\* the channel and is in its poll, or has left the poll and waits for the
\* signal to release its lock.
receiving(w) ==
    /\ watches[w].stopCh
    /\ wpc[w] \in {"poll", "stopping"}

\* What a watch loop does when its receive from the stop channel completes.
afterStop(w) ==
    IF wpc[w] = "poll"
    THEN IF lock[w] THEN "stopping" ELSE "done"
    ELSE "releasing"

\* shutdown: one send on the unbuffered stopCh; it completes when a watch loop
\* receives it.
SendStop(w) ==
    /\ at("release")
    /\ sent < stopSignals
    /\ receiving(w)
    /\ sent' = sent + 1
    /\ wpc' = [wpc EXCEPT ![w] = afterStop(w)]
    /\ UNCHANGED <<config, pc, exitCode, retries, fixtures, services, todo,
                   nodes, nodeIdx, count, watches, lock, wlog, sigCh, discoverErr, detVars>>

\* shutdown: os.Exit(0) once the loop is through.
ShutdownExit ==
    /\ at("release")
    /\ sent >= stopSignals
    /\ exit(0)
    /\ UNCHANGED <<config, retries, fixtures, services, todo, nodes, nodeIdx,
                   count, watches, wpc, lock, wlog, sigCh, sent, discoverErr, detVars>>

\* ------------------------------------------------------------------ watch loop
\* Dispatching whatever acquire answered.
dispatches_unlocked(acquired) == TRUE

\* Whether the watch loop hands a confirmed Transition to the dispatcher: in
\* local mode always, in fleet-wide mode when acquire reported the lock held.
dispatches(acquired) == IF config.GlobalMode THEN acquired ELSE TRUE

\* A watch loop in its poll gets an observation that the change detector
\* confirms as a Transition.  In fleet-wide mode it calls acquire, which
\* fails when another instance holds the lock.
ConfirmedTransition(w) ==
    /\ ~exited
    /\ wpc[w] = "poll"
    /\ \E acquired \in IF config.GlobalMode THEN BOOLEAN ELSE {FALSE} :
         /\ lock' = IF config.GlobalMode THEN [lock EXCEPT ![w] = acquired]
                    ELSE lock
         /\ wlog' = [dispatched |-> IF dispatches(acquired)
                                    THEN wlog.dispatched \cup {lock'[w]}
                                    ELSE wlog.dispatched,
                     suppressed |-> wlog.suppressed \/ ~dispatches(acquired),
                     lockCalled |-> wlog.lockCalled \/ config.GlobalMode]
    /\ UNCHANGED <<config, pc, exitCode, retries, fixtures, services, todo,
                   nodes, nodeIdx, count, watches, wpc, sigCh, sent, discoverErr, detVars>>

\* A watch loop that was told to release its lock does so and returns;
\* releasing a lock it no longer holds is a no-op.
ReleaseLock(w) ==
    /\ ~exited
    /\ wpc[w] = "releasing"
    /\ lock' = [lock EXCEPT ![w] = FALSE]
    /\ wlog' = [wlog EXCEPT !.lockCalled = TRUE]
    /\ wpc' = [wpc EXCEPT ![w] = "done"]
    /\ UNCHANGED <<config, pc, exitCode, retries, fixtures, services, todo,
                   nodes, nodeIdx, count, watches, sigCh, sent, discoverErr, detVars>>

\* The registry expires the reservation this process holds for the entity of
\* watch loop w.
LockExpires(w) ==
    /\ ~exited
    /\ lock[w]
    /\ lock' = [lock EXCEPT ![w] = FALSE]
    /\ UNCHANGED <<config, pc, exitCode, retries, fixtures, services, todo,
                   nodes, nodeIdx, count, watches, wpc, wlog, sigCh, sent,
                   discoverErr, detVars>>

\* ------------------------------------------------------------------ change detector
\* The detector of one entity before its first observation.
NewDetector == [confirmed |-> NoState, candidate |-> NoState, counter |-> 0]

\* Counting every observation, whether it matches the candidate or not.
track_noRestart(d, o) == [d EXCEPT !.candidate = o, !.counter = @ + 1]

\* The candidate and the counter after observation o: a match increments the
\* counter, a different value becomes the candidate with counter 1.
track(d, o) ==
    IF o = d.candidate
    THEN [d EXCEPT !.counter = @ + 1]
    ELSE [d EXCEPT !.candidate = o, !.counter = 1]

\* Confirming one observation early.
confirms_early(d, thr) == d.counter >= thr - 1 /\ d.candidate # d.confirmed

\* The counter has reached the threshold for a candidate that differs from
\* the confirmed state.
confirms(d, thr) == d.counter >= thr /\ d.candidate # d.confirmed

\* Emitting without taking the new state over as the confirmed one.
detect_keepsConfirmed(d, o, thr) ==
    IF d.confirmed = NoState
    THEN [confirmed |-> o, candidate |-> o, counter |-> 1]
    ELSE IF confirms(track(d, o), thr)
         THEN [confirmed |-> d.confirmed, candidate |-> o, counter |-> 0]
         ELSE track(d, o)

\* One observation.  The first one only sets the baseline; a later one is
\* tracked and, once confirmed, becomes the confirmed state with the counter
\* reset.  (A threshold of 1 reports at once, so the threshold is looked at
\* after either branch of track.)
detect(d, o, thr) ==
    IF d.confirmed = NoState
    THEN [confirmed |-> o, candidate |-> o, counter |-> 1]
    ELSE IF confirms(track(d, o), thr)
         THEN [confirmed |-> o, candidate |-> o, counter |-> 0]
         ELSE track(d, o)

\* The Transition observation o makes the detector emit, if any.
transitions(d, o, thr, pos) ==
    IF d.confirmed # NoState /\ confirms(track(d, o), thr)
    THEN <<[pos |-> pos, from |-> d.confirmed, to |-> o]>>
    ELSE << >>

\* The watch loop feeds one observation to the change detector.
Observe(o) ==
    /\ Len(obs) < MaxObs
    /\ obs' = Append(obs, o)
    /\ det' = detect(det, o, threshold)
    /\ emitted' = emitted \o transitions(det, o, threshold, Len(obs) + 1)
    /\ UNCHANGED <<threshold, procVars>>

\* ------------------------------------------------------------------ process
Configs ==
    [GlobalMode : BOOLEAN, DevMode : BOOLEAN, ChangeThreshold : {1},
     Services : {<< >>} \cup [{"web"} -> ServiceConfig]]

Init ==
    /\ config \in Configs
    /\ pc = "flags"
    /\ exitCode = -1
    /\ retries = 0
    /\ fixtures = {}
    /\ services = << >>
    /\ todo = {}
    /\ nodes = << >>
    /\ discoverErr = {}
    /\ nodeIdx = 1
    /\ count = 0
    /\ watches = << >>
    /\ wpc = << >>
    /\ lock = << >>
    /\ wlog = NewLog
    /\ sigCh = << >>
    /\ sent = 0
    /\ det = NewDetector
    /\ threshold = 1
    /\ obs = << >>
    /\ emitted = << >>

Watches == 1..Len(watches)

Next ==
    \/ ParseFlags
    \/ LoadConfig
    \/ NewClient
    \/ LeaderQuery
    \/ RegisterTestServices
    \/ Discover
    \/ StartServiceWatches
    \/ StartNodeWatches
    \/ NotifySignals
    \/ SignalArrives
    \/ HandleSignal
    \/ ShutdownDeregister
    \/ \E w \in Watches : SendStop(w)
    \/ ShutdownExit
    \/ \E w \in Watches : ConfirmedTransition(w)
    \/ \E w \in Watches : ReleaseLock(w)
    \/ \E w \in Watches : LockExpires(w)

Spec == Init /\ [][Next]_vars

\* The change detector of one entity, fed every observation sequence up to
\* MaxObs under every threshold up to MaxThreshold.
DetInit ==
    /\ config = [GlobalMode |-> FALSE, DevMode |-> FALSE, ChangeThreshold |-> 1,
                 Services |-> << >>]
    /\ pc = "signals"
    /\ exitCode = -1
    /\ retries = 0
    /\ fixtures = {}
    /\ services = << >>
    /\ todo = {}
    /\ nodes = << >>
    /\ discoverErr = {}
    /\ nodeIdx = 1
    /\ count = 0
    /\ watches = << >>
    /\ wpc = << >>
    /\ lock = << >>
    /\ wlog = NewLog
    /\ sigCh = << >>
    /\ sent = 0
    /\ det = NewDetector
    /\ threshold \in 1..MaxThreshold
    /\ obs = << >>
    /\ emitted = << >>

DetNext == \E o \in HealthStates : Observe(o)

DetSpec == DetInit /\ [][DetNext]_vars

\* Startup alone, up to the start of the signal loop, over a wider family of
\* configurations and registry answers: both services may be configured, a
\* tag list or a node list may name an entry twice, and the ignore list may
\* cover every tag of a service.
StartTagLists == {<< >>, <<"a">>, <<"a", "b">>, <<"a", "a">>}
StartIgnoreLists == {<< >>, <<"a">>}
StartNodeLists == {<< >>, <<"n1">>, <<"n1", "n2">>, <<"n1", "n1">>}

StartServiceConfig == [DistinctTags : BOOLEAN, IgnoredTags : StartIgnoreLists,
                       ChangeThreshold : {2}]

StartConfigs ==
    [GlobalMode : BOOLEAN, DevMode : BOOLEAN, ChangeThreshold : {1},
     Services : UNION {[S -> StartServiceConfig] : S \in SUBSET ServiceNames}]

StartCatalogs == UNION {[S -> StartTagLists] : S \in SUBSET ServiceNames}

\* The longest tag list and the longest node list of the family.
StartMost == 2 * Cardinality(ServiceNames) + 2

StartInit ==
    /\ config \in StartConfigs
    /\ pc = "flags"
    /\ exitCode = -1
    /\ retries = 0
    /\ fixtures = {}
    /\ services = << >>
    /\ todo = {}
    /\ nodes = << >>
    /\ discoverErr = {}
    /\ nodeIdx = 1
    /\ count = 0
    /\ watches = << >>
    /\ wpc = << >>
    /\ lock = << >>
    /\ wlog = NewLog
    /\ sigCh = << >>
    /\ sent = 0
    /\ det = NewDetector
    /\ threshold = 1
    /\ obs = << >>
    /\ emitted = << >>

StartDiscover == DiscoverFrom(StartCatalogs, StartNodeLists, StartMost)

StartNext ==
    \/ ParseFlags
    \/ LoadConfig
    \/ NewClient
    \/ LeaderQuery
    \/ RegisterTestServices
    \/ StartDiscover
    \/ StartServiceWatches
    \/ StartNodeWatches
    \/ NotifySignals

StartSpec == StartInit /\ [][StartNext]_vars

\* The goroutines are scheduled fairly: the main goroutine and every watch
\* loop take a step that stays possible.
MainStep ==
    \/ ParseFlags
    \/ LoadConfig
    \/ NewClient
    \/ LeaderQuery
    \/ RegisterTestServices
    \/ Discover
    \/ StartServiceWatches
    \/ StartNodeWatches
    \/ NotifySignals
    \/ HandleSignal
    \/ ShutdownDeregister
    \/ \E w \in Watches : SendStop(w)
    \/ ShutdownExit

FairSpec ==
    /\ Spec
    /\ WF_vars(MainStep)
    /\ \A w \in 1..MaxWatches : WF_vars(w \in Watches /\ ReleaseLock(w))

\* ------------------------------------------------------------------ claims
\* The process has ended by the os.Exit(0) of shutdown.
exitedByShutdown == exited /\ pc = "release"

\* The signal loop has started (signal.Notify was called).
signalLoopStarted == pc \in {"signals", "shutdown", "release"}

\* C1: in fleet-wide mode, when shutdown reaches the process exit no watch
\* loop holds a lock any more.
C1_NoLockHeldAtExit ==
    (exitedByShutdown /\ config.GlobalMode) => \A w \in Watches : ~lock[w]

\* C2: once a termination signal has started shutdown, the process
\* eventually exits.
C2_ShutdownExits == (pc = "shutdown") ~> exited

\* C3 as stated: when the signal loop has started, count is the number of
\* watch loops started and every one of them has the stop channel.
C3_CountIsAllWatches ==
    signalLoopStarted =>
        /\ count = Len(watches)
        /\ \A w \in Watches : watches[w].stopCh

\* C3 amended: when the signal loop has started, count is the number of watch
\* loops that were given the stop channel; these are all service watches
\* and, in fleet-wide mode only, the node watches.
C3_CountIsBoundWatches ==
    signalLoopStarted =>
        /\ count = Cardinality({w \in Watches : watches[w].stopCh})
        /\ \A w \in Watches :
              watches[w].stopCh <=>
                  (watches[w].kind = "service" \/ config.GlobalMode)

C3_Witness ==
    /\ pc = "signals"
    /\ ~config.GlobalMode
    /\ \E w \in Watches : watches[w].kind = "node"
    /\ \E w \in Watches : watches[w].kind = "service"

\* C4: the sends completed on the stop channel never exceed count * 2, they
\* are exactly count * 2 when the process exits through shutdown, and count
\* is written by the two start loops of main only.
C4_StopSignalsBounded ==
    /\ [](sent <= count * 2 /\ (exitedByShutdown => sent = count * 2))
    /\ [][count' # count => pc \in {"services", "nodes"}]_vars

C4_Witness == exitedByShutdown /\ count = 2 /\ sent = 4

\* C5: in fleet-wide mode every dispatch happens with the lock held; in
\* local mode no confirmed Transition is suppressed and no lock call is made.
C5_DispatchOnlyWithLock ==
    /\ config.GlobalMode => FALSE \notin wlog.dispatched
    /\ ~config.GlobalMode =>
          /\ ~wlog.suppressed
          /\ ~wlog.lockCalled
          /\ \A w \in Watches : ~lock[w]

\* A dispatch under the lock has happened, another Transition was
\* suppressed, and the lock of a polling watch loop is gone again.
C5_Witness ==
    /\ config.GlobalMode
    /\ wlog.dispatched = {TRUE}
    /\ wlog.suppressed
    /\ \E w \in Watches : wpc[w] = "poll" /\ ~lock[w]

\* The number of equal observations in a row that end at position i of s.
RECURSIVE runEnding(_, _)
runEnding(s, i) ==
    IF i = 1 \/ s[i - 1] # s[i] THEN 1 ELSE 1 + runEnding(s, i - 1)

\* C6: every Transition is emitted at an observation that completes a run of
\* at least threshold equal values, and never at the first observation.
C6_NoTransitionBelowThreshold ==
    \A k \in 1..Len(emitted) :
        /\ emitted[k].pos > 1
        /\ runEnding(obs, emitted[k].pos) >= threshold

\* Flapping below the threshold emitted nothing, the full run emitted once.
C6_Witness ==
    /\ threshold = 2
    /\ obs = <<"ok", "warn", "ok", "warn", "warn">>
    /\ Len(emitted) = 1

\* C7: the observation that completes a run of exactly threshold values
\* different from the confirmed state emits exactly one Transition from the
\* confirmed state to that value and makes it the confirmed state; an
\* observation that prolongs the run emits nothing.
C7_OneTransitionPerChange ==
    [][obs' # obs =>
         LET n == Len(obs')
             o == obs'[n]
         IN  /\ (det.confirmed # NoState /\ o # det.confirmed
                    /\ runEnding(obs', n) = threshold) =>
                   /\ emitted' = Append(emitted,
                         [pos |-> n, from |-> det.confirmed, to |-> o])
                   /\ det'.confirmed = o
             /\ runEnding(obs', n) > threshold =>
                   /\ emitted' = emitted
                   /\ det'.confirmed = det.confirmed]_vars

\* One Transition was emitted and the same value was observed again after it.
C7_Witness ==
    /\ threshold >= 2
    /\ Len(emitted) = 1
    /\ emitted[1].pos < Len(obs)
    /\ runEnding(obs, Len(obs)) > threshold

C8_Scenario ==
    /\ threshold = 3
    /\ obs = <<"ok", "ok", "warn", "warn", "warn", "warn">>

\* C8 as stated: threshold 3 and [ok, ok, warn, warn, warn, warn] emit ok->warn
\* once, at the 4th element.
C8_EmittedAtFourth ==
    C8_Scenario => emitted = <<[pos |-> 4, from |-> "ok", to |-> "warn"]>>

\* C8 amended: threshold 3 and [ok, ok, warn, warn, warn, warn] emit ok->warn
\* once, at the 3rd consecutive warn, which is the 5th element; the 4th warn
\* emits nothing.
C8_EmittedAtFifth ==
    C8_Scenario => emitted = <<[pos |-> 5, from |-> "ok", to |-> "warn"]>>

C8_Witness == C8_Scenario /\ Len(emitted) = 1

\* C9: the signal loop starts shutdown for SIGINT, SIGTERM and SIGQUIT, all
\* three alike, and for nothing else; any other signal is taken off the
\* channel and changes nothing, and the loop goes on.
C9_OnlyTermSignalsShutDown ==
    [][/\ (sigCh # << >> /\ sigCh' = << >>) =>
            IF Head(sigCh) \in {"SIGINT", "SIGTERM", "SIGQUIT"}
            THEN pc' = "shutdown"
            ELSE /\ pc' = "signals"
                 /\ UNCHANGED <<exitCode, fixtures, count, wpc, sent>>
       /\ (pc' = "shutdown" /\ pc # "shutdown") =>
            /\ pc = "signals"
            /\ sigCh # << >>
            /\ Head(sigCh) \in {"SIGINT", "SIGTERM", "SIGQUIT"}]_vars

\* SIGQUIT has started shutdown while watch loops are running.
C9_Witness ==
    /\ pc = "shutdown"
    /\ Len(watches) > 0
    /\ sigCh = <<"SIGHUP">>

\* C10 as stated: after a window of failed leader queries the process has
\* aborted with a non-zero status and no watch loop.
C10_AbortsAfterWindow ==
    (pc = "leader" /\ retries >= MaxRetries) =>
        (exited /\ exitCode # 0 /\ Len(watches) = 0)

\* C10 amended: however often the leader query has failed, the process has
\* not exited and has started no watch loop; it asks again.
C10_RetriesWithoutAbort ==
    (pc = "leader" /\ retries > 0) =>
        (~exited /\ Len(watches) = 0 /\ count = 0)

C10_Witness == pc = "leader" /\ retries = MaxRetries /\ ~exited

\* Startup is through: the signal loop waits for its first signal.
startupDone == pc = "signals"

\* The service watch loops started for service s.
watchesOf(s) ==
    {w \in Watches : watches[w].kind = "service" /\ watches[w].name = s}

\* C11: a watch loop is started and a stop signal is sent only after the
\* configuration was parsed, a leader query succeeded and the services were
\* discovered; a configuration error ends the process with status 2 and a
\* service discovery error with a non-zero status, both without any watch
\* loop and without any stop signal.
C11_NoWatchBeforeDiscovery ==
    /\ (Len(watches) > 0 \/ sent > 0) =>
          /\ pc \in {"services", "nodes", "notify", "signals", "shutdown",
                     "release"}
          /\ "services" \notin discoverErr
    /\ (exited /\ pc = "config") =>
          (exitCode = 2 /\ Len(watches) = 0 /\ sent = 0)
    /\ "services" \in discoverErr =>
          (exited /\ pc = "discover" /\ exitCode # 0
             /\ Len(watches) = 0 /\ sent = 0)
    /\ pc \in {"flags", "config", "client", "leader", "devmode", "discover"} =>
          (Len(watches) = 0 /\ count = 0 /\ sent = 0)

C11_Witness == "services" \in discoverErr /\ exited /\ fixtures # {}

\* C12: a service watch loop of a service with a per-service configuration
\* has that service's change threshold, every other watch loop the global one.
C12_ServiceThreshold ==
    \A w \in Watches :
        watches[w].changeThreshold =
            IF watches[w].kind = "service"
                 /\ watches[w].name \in DOMAIN config.Services
            THEN config.Services[watches[w].name].ChangeThreshold
            ELSE config.ChangeThreshold

\* C13: once startup is through, no two watch loops watch the same entity.
C13_OneWatchPerEntity ==
    startupDone =>
        \A v \in Watches, w \in Watches :
            v # w =>
                \/ watches[v].kind # watches[w].kind
                \/ watches[v].name # watches[w].name
                \/ watches[v].tag # watches[w].tag

\* C14: when the process exits through shutdown, every watch loop that has
\* the stop channel has received a stop signal, so none is still in its
\* poll, and none still holds its lock.
C14_EveryLoopStopped ==
    exitedByShutdown =>
        \A w \in Watches :
            watches[w].stopCh => (wpc[w] # "poll" /\ ~lock[w])

\* The tags a service or an ignore list can name, and the untagged watch.
TagNames == {"", "a", "b"}

\* Service s is configured to have its tags watched one by one and has tags.
perTag(s) ==
    /\ s \in DOMAIN config.Services
    /\ config.Services[s].DistinctTags
    /\ services[s] # << >>

\* Tag t is in the ignore list of service s.
ignoredTag(s, t) ==
    \E i \in 1..Len(config.Services[s].IgnoredTags) :
        config.Services[s].IgnoredTags[i] = t

\* C15: after the service loop, a service with DistinctTags and a non-empty
\* tag list has a watch loop for tag t exactly when t is one of its tags and
\* not ignored, and no untagged one; any other service has exactly one watch
\* loop, untagged; the service loop adds one to count per watch loop it
\* starts.
C15_WatchesPerService ==
    /\ [](pc \in {"nodes", "notify", "signals"} =>
            \A s \in DOMAIN services :
                IF perTag(s)
                THEN \A t \in TagNames :
                        (\E w \in watchesOf(s) : watches[w].tag = t) <=>
                            /\ \E i \in 1..Len(services[s]) : services[s][i] = t
                            /\ ~ignoredTag(s, t)
                ELSE /\ Cardinality(watchesOf(s)) = 1
                     /\ \A w \in watchesOf(s) : watches[w].tag = "")
    /\ [][pc = "services" =>
            count' - count = Len(watches') - Len(watches)]_vars

\* A service with tags a and b, a ignored, is watched by its tag b alone.
C15_Witness ==
    /\ startupDone
    /\ \E s \in DOMAIN services :
          /\ perTag(s)
          /\ services[s] = <<"a", "b">>
          /\ ignoredTag(s, "a")
          /\ \E w \in watchesOf(s) : watches[w].tag = "b"
          /\ Cardinality(watchesOf(s)) = 1

\* C16 as stated: once startup is through, every discovered service has a
\* watch loop.
C16_EveryServiceWatched ==
    startupDone => \A s \in DOMAIN services : watchesOf(s) # {}

\* C16 amended: once startup is through, a discovered service has a watch
\* loop unless it has DistinctTags set, a non-empty tag list and every one
\* of its tags in IgnoredTags; such a service has none.
C16_WatchedUnlessAllIgnored ==
    startupDone =>
        \A s \in DOMAIN services :
            (watchesOf(s) = {}) <=>
                /\ perTag(s)
                /\ \A i \in 1..Len(services[s]) : ignoredTag(s, services[s][i])

C16_Witness ==
    /\ startupDone
    /\ \E s \in DOMAIN services : watchesOf(s) = {}
    /\ \E s \in DOMAIN services : watchesOf(s) # {}

\* C17: a node discovery error does not end the process; startup goes on to
\* start every service watch loop and no node watch loop, and count is the
\* number of service watch loops.  A service discovery error ends the
\* process.
C17_NodeErrorNotFatal ==
    /\ "nodes" \in discoverErr => ~(exited /\ pc = "discover")
    /\ (startupDone /\ "nodes" \in discoverErr) =>
          /\ \A w \in Watches : watches[w].kind = "service"
          /\ count = Len(watches)
          /\ \A s \in DOMAIN services :
                perTag(s) \/ Cardinality(watchesOf(s)) = 1
          /\ \A s \in DOMAIN services :
                perTag(s) =>
                    \A i \in 1..Len(services[s]) :
                        ignoredTag(s, services[s][i])
                          \/ \E w \in watchesOf(s) :
                                watches[w].tag = services[s][i]
    /\ "services" \in discoverErr =>
          (exited /\ pc = "discover" /\ exitCode # 0)

C17_Witness ==
    /\ startupDone
    /\ config.GlobalMode
    /\ "nodes" \in discoverErr
    /\ Len(watches) > 1

\* C18: with DevMode the three fixtures are registered from startup until
\* shutdown deregisters them, which it has done before its first send on
\* the stop channel; without DevMode no fixture is ever registered.
C18_FixturesDeregistered ==
    /\ config.DevMode =>
          /\ pc \in {"discover", "services", "nodes", "notify", "signals",
                     "shutdown"} =>
                fixtures = {"memory usage", "redis", "nginx"}
          /\ pc = "release" => fixtures = {}
    /\ sent > 0 => fixtures = {}
    /\ ~config.DevMode => fixtures = {}

\* Shutdown has deregistered the fixtures and is blocked in a send that no
\* watch loop will receive.
C18_Witness ==
    /\ config.DevMode
    /\ pc = "release"
    /\ ~exited
    /\ fixtures = {}
    /\ sent < count * 2
    /\ \A w \in Watches : ~receiving(w)

====
